---------------------------- MODULE Spec2Model ----------------------------
(***************************************************************************)
(* A model of tfd.MarkovChain                                              *)
(* (tensorflow_probability/python/distributions/markov_chain.py).          *)
(*                                                                         *)
(* Tensors are records [shape, data]: shape is the sequence of extents and *)
(* data the elements in row-major order.  Numbers are integers, so sums    *)
(* are exact: floating-point round-off (which the specification bounds by  *)
(* a tolerance) is outside the model.  A structured state is a sequence    *)
(* of leaf tensors, in tf.nest.flatten order.                              *)
(***************************************************************************)
EXTENDS Integers, Sequences, FiniteSets, TLC

\* ------------------------------------------------------------------ bounds
\* largest num_steps a chain is built with
MaxSteps == 3
\* number of distinct caller seeds
NumSeeds == 2
\* number of distinct input trajectories offered to log_prob per shape
NumInputs == 2

\* number of values a state element can take (the model's stand-in for a
\* float): element values are 0 .. NumVals-1
NumVals == 3

\* ----------------------------------------------------------- tensor algebra
RECURSIVE Prod(_)
Prod(s) == IF s = <<>> THEN 1 ELSE Head(s) * Prod(Tail(s))

RECURSIVE SumSeq(_)
SumSeq(s) == IF s = <<>> THEN 0 ELSE Head(s) + SumSeq(Tail(s))

Min(a, b) == IF a < b THEN a ELSE b

Max(a, b) == IF a < b THEN b ELSE a

Tensor(shape, data) == [shape |-> shape, data |-> data]

Rank(x) == Len(x.shape)

\* the multi-index (0-based entries) of the row-major position k (0-based)
RECURSIVE Unflatten(_, _)
Unflatten(shape, k) ==
  IF shape = <<>> THEN <<>>
  ELSE LET inner == Prod(Tail(shape))
       IN  <<k \div inner>> \o Unflatten(Tail(shape), k % inner)

\* the row-major position (0-based) of a multi-index
RECURSIVE Flatten(_, _)
Flatten(shape, idx) ==
  IF shape = <<>> THEN 0
  ELSE Head(idx) * Prod(Tail(shape)) + Flatten(Tail(shape), Tail(idx))

\* the element of x at a multi-index
At(x, idx) == x.data[Flatten(x.shape, idx) + 1]

\* tf.transpose(x, perm): output axis i is input axis perm[i] (0-based)
Transpose(x, perm) ==
  LET r      == Rank(x)
      oshape == [i \in 1..r |-> x.shape[perm[i] + 1]]
      inv(a) == CHOOSE i \in 1..r : perm[i] + 1 = a
      src(k) == LET oidx == Unflatten(oshape, k)
                IN  [a \in 1..r |-> oidx[inv(a)]]
  IN  Tensor(oshape, [k \in 1..Prod(oshape) |-> At(x, src(k - 1))])

\* the integers lo, lo+1, ..., hi-1 as a sequence (tf.range(lo, hi))
Range(lo, hi) == [i \in 1..Max(hi - lo, 0) |-> lo + i - 1]

\* distribution_util.move_dimension(x, source_idx, dest_idx)
move_dimension(x, source_idx, dest_idx) ==
  LET r   == Rank(x)
      s   == IF source_idx < 0 THEN r + source_idx ELSE source_idx
      d   == IF dest_idx < 0 THEN r + dest_idx ELSE dest_idx
      perm == IF s < d
              THEN Range(0, s) \o Range(s + 1, d + 1) \o <<s>> \o Range(d + 1, r)
              ELSE Range(0, d) \o <<s>> \o Range(d, s) \o Range(s + 1, r)
  IN  Transpose(x, perm)

\* x[lo:hi] along axis 0, for 0 <= lo and 0 <= hi (Python slice clamping)
Slice0(x, lo, hi) ==
  LET n     == Head(x.shape)
      a     == Min(lo, n)
      b     == Max(Min(hi, n), a)
      inner == Prod(Tail(x.shape))
  IN  Tensor(<<b - a>> \o Tail(x.shape),
             SubSeq(x.data, a * inner + 1, b * inner))

\* x[i] along axis 0
Index0(x, i) ==
  LET inner == Prod(Tail(x.shape))
  IN  Tensor(Tail(x.shape), SubSeq(x.data, i * inner + 1, (i + 1) * inner))

\* x[tf.newaxis, ...]
NewAxis(x) == Tensor(<<1>> \o x.shape, x.data)

\* tf.concat([a, b], axis=0)
Concat0(a, b) ==
  Tensor(<<Head(a.shape) + Head(b.shape)>> \o Tail(a.shape), a.data \o b.data)

\* tf.reduce_sum(x, axis=0)
reduce_sum(x) ==
  LET n     == Head(x.shape)
      inner == Prod(Tail(x.shape))
  IN  Tensor(Tail(x.shape),
             [j \in 1..inner |->
                SumSeq([i \in 1..n |-> x.data[(i - 1) * inner + j]])])

\* the running (total, correction) pair of Kahan's algorithm over a sequence
RECURSIVE KahanFold(_, _, _)
KahanFold(s, total, c) ==
  IF s = <<>> THEN <<total, c>>
  ELSE LET y == Head(s) - c
           t == total + y
       IN  KahanFold(Tail(s), t, (t - total) - y)

\* tfp_math.reduce_kahan_sum(x, axis=0).value
reduce_kahan_sum(x) ==
  LET n     == Head(x.shape)
      inner == Prod(Tail(x.shape))
  IN  Tensor(Tail(x.shape),
             [j \in 1..inner |->
                KahanFold([i \in 1..n |-> x.data[(i - 1) * inner + j]], 0, 0)[1]])

\* sum over the trailing nd axes (a distribution reducing its event axes)
ReduceEvent(x, nd) ==
  LET r     == Rank(x)
      front == SubSeq(x.shape, 1, r - nd)
      inner == Prod(SubSeq(x.shape, r - nd + 1, r))
  IN  Tensor(front,
             [j \in 1..Prod(front) |->
                SumSeq(SubSeq(x.data, (j - 1) * inner + 1, j * inner))])

\* numpy broadcasting of two shapes; <<-1>> when they do not broadcast
RECURSIVE BroadcastShape(_, _)
BroadcastShape(s, t) ==
  IF s = <<>> THEN t
  ELSE IF t = <<>> THEN s
  ELSE LET a    == s[Len(s)]
           b    == t[Len(t)]
           rest == BroadcastShape(SubSeq(s, 1, Len(s) - 1), SubSeq(t, 1, Len(t) - 1))
       IN  IF rest = <<-1>> \/ ~(a = b \/ a = 1 \/ b = 1) THEN <<-1>>
           ELSE rest \o <<IF a = 1 THEN b ELSE a>>

\* tf.broadcast_to(x, shape), for a shape x broadcasts to
BroadcastTo(x, shape) ==
  LET r   == Len(shape)
      off == r - Rank(x)
      src(k) == LET oidx == Unflatten(shape, k)
                IN  [a \in 1..Rank(x) |->
                       IF x.shape[a] = 1 THEN 0 ELSE oidx[a + off]]
  IN  Tensor(shape, [k \in 1..Prod(shape) |-> At(x, src(k - 1))])

\* elementwise x + y and x - y with broadcasting
Add(x, y) ==
  LET sum(s) == LET a == BroadcastTo(x, s)
                    b == BroadcastTo(y, s)
                IN  Tensor(s, [k \in 1..Prod(s) |-> a.data[k] + b.data[k]])
  IN  sum(BroadcastShape(x.shape, y.shape))

Sub(x, y) ==
  LET difference(s) == LET a == BroadcastTo(x, s)
                           b == BroadcastTo(y, s)
                       IN  Tensor(s, [k \in 1..Prod(s) |-> a.data[k] - b.data[k]])
  IN  difference(BroadcastShape(x.shape, y.shape))

\* a failed tensor computation (an exception raised while computing it);
\* why names the exception
Raised(why) == [shape |-> <<-1>>, data |-> <<>>, why |-> why]

IsRaised(x) == x.shape = <<-1>>

\* elementwise x + y; raises when the shapes do not broadcast
AddB(x, y) ==
  IF IsRaised(x) THEN x
  ELSE IF IsRaised(y) THEN y
  ELSE IF BroadcastShape(x.shape, y.shape) = <<-1>> THEN Raised("BroadcastError")
  ELSE Add(x, y)

\* ------------------------------------------------- collaborators: seeds
\* samplers.split_seed(seed, n, salt): n child seeds.  A seed is the path of
\* its derivation, so distinct derivations are distinct seeds.
NoSalt == 0

MarkovChainSampleSalt == 7

split_seed(seed, n, salt) == [i \in 1..n |-> seed \o <<salt, i>>]

\* the pseudo-random stream a seed stands for: element k of leaf l
RECURSIVE Hash(_)
Hash(seed) == IF seed = <<>> THEN 0 ELSE (Len(seed) * Head(seed) + Hash(Tail(seed))) % 97

DrawElem(seed, l, k) == (Hash(seed) + 2 * l + k + (k \div 2)) % NumVals

\* ----------------------------------- collaborators: the prior distribution
\* A chain's prior is given by the event shape of each leaf (chain.event),
\* its batch shape (chain.batch) and a location parameter (chain.loc).
Leaves(chain) == 1..Len(chain.event)

\* initial_state_prior.sample(sample_shape, seed)
PriorSample(chain, sample_shape, seed) ==
  [l \in Leaves(chain) |->
     LET shape == sample_shape \o chain.batch \o chain.event[l]
     IN  Tensor(shape, [k \in 1..Prod(shape) |->
                          (chain.loc + DrawElem(seed, l, k)) % NumVals])]

\* the prior's log-density of one element
PriorElemLP(chain, v) == 0 - (1 + 2 * ((v - chain.loc) % NumVals))

\* the sum of the leaves' log-densities (a joint distribution's log_prob)
RECURSIVE SumLeaves(_)
SumLeaves(lps) ==
  IF Len(lps) = 1 THEN lps[1] ELSE AddB(lps[1], SumLeaves(Tail(lps)))

\* initial_state_prior.log_prob(x0)
PriorLogProb(chain, x0) ==
  SumLeaves([l \in Leaves(chain) |->
     IF IsRaised(x0[l]) THEN x0[l]
     ELSE ReduceEvent(Tensor(x0[l].shape,
                             [k \in 1..Len(x0[l].data) |->
                                PriorElemLP(chain, x0[l].data[k])]),
                      Len(chain.event[l]))])

\* ------------------------------------- collaborators: the transition rule
\* transition_fn(step, state) for the rule kinds a caller can supply:
\*   "walk"  the next state is centred on the previous one, shifted by
\*           drift * step; its batch shape follows the state (as required)
\*   "const" a fixed distribution that ignores the state: batch shape []
\*   "gain"  as walk, with an extra trailing batch axis of extent 2
\*   "lose"  as walk, with the last batch axis reinterpreted as an event axis
\* step is a scalar tensor (sampling) or a vector running along axis 0 of
\* the state (density evaluation).
TransitionKinds == {"walk", "const", "gain", "lose"}

transition_fn(chain, step, state) ==
  [kind |-> chain.kind, drift |-> chain.drift, event |-> chain.event,
   step |-> step, state |-> state]

\* the step that goes with row-major position k (1-based) of a tensor of
\* the given shape: the rule lines a vector of steps up with axis 0
StepAt(step, shape, k) ==
  IF step.shape = <<>> \/ Head(step.shape) = 1 THEN step.data[1]
  ELSE step.data[((k - 1) \div Prod(Tail(shape))) + 1]

\* the shape a step tensor takes to broadcast against a state of rank r
StepShape(step, r) ==
  IF step.shape = <<>> THEN <<>> ELSE step.shape \o [i \in 1..(r - 1) |-> 1]

\* the transition's log-density of one element
TransElemLP(d, t, prev, cur) ==
  IF d.kind = "const" THEN 0 - (1 + cur)
  ELSE 0 - (1 + ((cur - prev - d.drift * t) % NumVals))

\* transition_fn(step, state).sample(seed=seed)
TransSample(d, seed) ==
  [l \in 1..Len(d.state) |->
     Tensor(d.state[l].shape,
            [k \in 1..Len(d.state[l].data) |->
               (d.state[l].data[k] + d.drift * StepAt(d.step, d.state[l].shape, k)
                  + DrawElem(seed, l, k)) % NumVals])]

\* the log-density of leaf l of cur, before the event axes are reduced:
\* previous state, current state and step broadcast against each other
TransLeafLP(d, l, cur) ==
  LET prev == d.state[l]
      lp(s1) ==
        IF s1 = <<-1>> THEN Raised("BroadcastError")
        ELSE LET a == BroadcastTo(prev, s1)
                 b == BroadcastTo(cur, s1)
             IN  Tensor(s1, [k \in 1..Prod(s1) |->
                               TransElemLP(d, StepAt(d.step, s1, k), a.data[k], b.data[k])])
      with_step(s0) ==
        lp(IF s0 = <<-1>> THEN s0
           ELSE BroadcastShape(s0, StepShape(d.step, Rank(prev))))
  IN  with_step(BroadcastShape(prev.shape, cur.shape))

\* append a trailing axis of extent 2 (the extra batch axis of "gain")
GainAxis(x) ==
  Tensor(x.shape \o <<2>>, [k \in 1..(2 * Len(x.data)) |->
                              x.data[((k - 1) \div 2) + 1] - ((k - 1) % 2)])

\* transition_fn(step, state).log_prob(cur)
TransLogProb(d, cur) ==
  LET reduced(e, l) == IF IsRaised(e) THEN e ELSE ReduceEvent(e, Len(d.event[l]))
      leaf(l)       == reduced(TransLeafLP(d, l, cur[l]), l)
      batched(joint) ==
        IF IsRaised(joint) THEN joint
        ELSE IF d.kind = "gain" THEN GainAxis(joint)
        ELSE IF d.kind = "lose"
             THEN IF Rank(joint) = 0 THEN Raised("ShapeError")
                  ELSE ReduceEvent(joint, 1)
        ELSE joint
  IN  batched(SumLeaves([l \in 1..Len(cur) |-> leaf(l)]))

\* ------------------------------------------------------------ MarkovChain
\* a reducer, named by the function it is, applied along axis 0
ApplySumFn(fn, x) ==
  IF fn = "reduce_kahan_sum" THEN reduce_kahan_sum(x) ELSE reduce_sum(x)

\* the reducer the _sum_fn property returns (lines 254-257)
SumFnSelected(chain) ==
  IF chain.use_kahan THEN "reduce_kahan_sum" ELSE "reduce_sum"

\* MarkovChain._sum_fn, applied along axis 0
_sum_fn(chain, x) ==
  IF IsRaised(x) THEN x
  ELSE IF Rank(x) = 0 THEN Raised("ShapeError")
  ELSE ApplySumFn(SumFnSelected(chain), x)

\* _step_axes counting the event axes only: -nd in place of -(1 + nd)
StepAxesNoOffset(chain) == [l \in Leaves(chain) |-> 0 - Len(chain.event[l])]

\* MarkovChain._step_axes
_step_axes(chain) == [l \in Leaves(chain) |-> 0 - (1 + Len(chain.event[l]))]


\* _log_prob_parts with the step indices taken one too far:
\* tf.range(1, num_steps) in place of tf.range(num_steps - 1)
LogProbPartsStepsFromOne(chain, x) ==
  LET first(xm) ==
        [l \in Leaves(chain) |->
           IF Head(xm[l].shape) = 0 THEN Raised("IndexError") ELSE Index0(xm[l], 0)]
      transition_lps(xm, num_steps) ==
        TransLogProb(
          transition_fn(chain,
                        Tensor(<<num_steps - 1>>, Range(1, num_steps)),
                        [l \in Leaves(chain) |-> Slice0(xm[l], 0, num_steps - 1)]),
          [l \in Leaves(chain) |-> Slice0(xm[l], 1, num_steps)])
      parts(xm, prior_lp) ==
        IF IsRaised(prior_lp) THEN <<prior_lp, prior_lp>>
        ELSE <<prior_lp, transition_lps(xm, Head(xm[1].shape))>>
      moved(xm) == parts(xm, PriorLogProb(chain, first(xm)))
  IN  moved([l \in Leaves(chain) |-> move_dimension(x[l], _step_axes(chain)[l], 0)])

\* MarkovChain._log_prob_parts: <<prior_lp, transition_lps>>
_log_prob_parts(chain, x) ==
  LET first(xm) ==
        [l \in Leaves(chain) |->
           IF Head(xm[l].shape) = 0 THEN Raised("IndexError") ELSE Index0(xm[l], 0)]
      transition_lps(xm, num_steps) ==
        TransLogProb(
          transition_fn(chain,
                        Tensor(<<num_steps - 1>>, Range(0, num_steps - 1)),
                        [l \in Leaves(chain) |-> Slice0(xm[l], 0, num_steps - 1)]),
          [l \in Leaves(chain) |-> Slice0(xm[l], 1, num_steps)])
      parts(xm, prior_lp) ==
        IF IsRaised(prior_lp) THEN <<prior_lp, prior_lp>>
        ELSE <<prior_lp, transition_lps(xm, Head(xm[1].shape))>>
      moved(xm) == parts(xm, PriorLogProb(chain, first(xm)))
  IN  moved([l \in Leaves(chain) |-> move_dimension(x[l], _step_axes(chain)[l], 0)])

\* ---------------------------------------------------------- static shapes
\* What is known of a tensor's shape before it is computed: "static" all of
\* it, "rank_only" its rank but no extent, "unknown" nothing.  A static
\* shape is [known, dims]; an unknown extent is None.
None == 0 - 1

ShapeModes == {"static", "rank_only", "unknown"}

UnknownShape == [known |-> FALSE, dims |-> <<>>]

StaticShape(shape, mode) ==
  IF mode = "unknown" THEN UnknownShape
  ELSE [known |-> TRUE,
        dims  |-> IF mode = "static" THEN shape ELSE [i \in 1..Len(shape) |-> None]]

\* tensorshape_util.is_compatible_with
is_compatible_with(s, t) ==
  \/ ~s.known
  \/ ~t.known
  \/ /\ Len(s.dims) = Len(t.dims)
     /\ \A i \in 1..Len(s.dims) :
          s.dims[i] = None \/ t.dims[i] = None \/ s.dims[i] = t.dims[i]

\* tensorshape_util.is_fully_defined
is_fully_defined(s) == s.known /\ \A i \in 1..Len(s.dims) : s.dims[i] # None

\* an assertion op: it fails when lhs and rhs are not in the relation rel
Assertion(rel, lhs, rhs) == [rel |-> rel, lhs |-> lhs, rhs |-> rhs]

Fails(a) ==
  IF a.rel = "greater_equal" THEN ~(a.lhs >= a.rhs) ELSE a.lhs # a.rhs


\* _assert_same_shape without the runtime assertion
AssertSameShapeStaticOnly(x, y, validate_args, mode) ==
  IF ~is_compatible_with(StaticShape(x.shape, mode), StaticShape(y.shape, mode))
  THEN "raise"
  ELSE "none"

\* _assert_same_shape(x, y, validate_args): "raise" for the ValueError,
\* else the list of assertions
_assert_same_shape(x, y, validate_args, mode) ==
  IF ~is_compatible_with(StaticShape(x.shape, mode), StaticShape(y.shape, mode))
  THEN "raise"
  ELSE IF validate_args /\ ~(is_fully_defined(StaticShape(x.shape, mode)) /\
                             is_fully_defined(StaticShape(y.shape, mode)))
       THEN "assert"
       ELSE "none"

\* the outcome of an operation: a value, or the error it raised
Ok(v) == [status |-> "ok", value |-> v]

Error(kind) == [status |-> kind, value |-> <<>>]

OfTensor(x) == IF IsRaised(x) THEN Error(x.why) ELSE Ok(x)

\* MarkovChain._log_prob
_log_prob(chain, x, mode) ==
  LET guarded(prior_lp, transition_lp, check) ==
        IF check = "raise" THEN Error("ShapeError")
        ELSE IF check = "assert" /\ prior_lp.shape # transition_lp.shape
             THEN Error("ShapeError")
        ELSE OfTensor(AddB(prior_lp, transition_lp))
      added(prior_lp, transition_lp) ==
        IF IsRaised(prior_lp) THEN OfTensor(prior_lp)
        ELSE IF IsRaised(transition_lp) THEN OfTensor(transition_lp)
        ELSE guarded(prior_lp, transition_lp,
                     _assert_same_shape(prior_lp, transition_lp,
                                        chain.validate_args, mode))
      summed(parts) == added(parts[1], _sum_fn(chain, parts[2]))
  IN  summed(_log_prob_parts(chain, x))

\* _parameter_control_dependencies with the test of is_init inverted
ParameterControlDependenciesInverted(chain, is_init) ==
  IF ~chain.validate_args THEN <<>>
  ELSE IF is_init = chain.is_ref
       THEN <<Assertion("greater_equal", chain.num_steps, 1)>>
       ELSE <<>>

\* MarkovChain._parameter_control_dependencies: the list of assertions
_parameter_control_dependencies(chain, is_init) ==
  IF ~chain.validate_args THEN <<>>
  ELSE IF is_init # chain.is_ref
       THEN <<Assertion("greater_equal", chain.num_steps, 1)>>
       ELSE <<>>


\* ps.shape(x)[k]: the extent of axis k, counted from the end when k < 0
Dim(x, k) == x.shape[(IF k < 0 THEN Rank(x) + k ELSE k) + 1]

\* _sample_control_dependencies looking at the first leaf only
SampleControlDependenciesFirstLeaf(chain, x) ==
  IF ~chain.validate_args THEN <<>>
  ELSE <<Assertion("equal",
                   Dim(x[1], _step_axes(chain)[1]),
                   chain.num_steps)>>

\* MarkovChain._sample_control_dependencies: the list of assertions
_sample_control_dependencies(chain, x) ==
  IF ~chain.validate_args THEN <<>>
  ELSE LET parts_num_steps ==
             [l \in Leaves(chain) |->
                Dim(x[l], _step_axes(chain)[l])]
       IN  [l \in Leaves(chain) |->
              Assertion("equal", parts_num_steps[l], chain.num_steps)]

SomeFails(assertions) == \E i \in 1..Len(assertions) : Fails(assertions[i])

\* Distribution.log_prob: the parameter and the sample assertions guard
\* _log_prob
log_prob(chain, x, mode) ==
  IF SomeFails(_parameter_control_dependencies(chain, FALSE))
  THEN Error("InvalidStepCount")
  ELSE IF SomeFails(_sample_control_dependencies(chain, x))
       THEN Error("StepAxisLengthMismatch")
       ELSE _log_prob(chain, x, mode)


\* the reducer of the ratio chosen by p's flag alone
RatioSumFnSelectedFirstOnly(pc, qc) ==
  IF pc.use_kahan THEN "reduce_kahan_sum" ELSE "reduce_sum"

\* the reducer _markov_chain_log_prob_ratio chooses (lines 466-471)
RatioSumFnSelected(pc, qc) ==
  IF pc.use_kahan \/ qc.use_kahan THEN "reduce_kahan_sum" ELSE "reduce_sum"

\* the ratio from the parts of the two chains (lines 466-472):
\* pp = <<p_prior_lp, p_transition_lps>>, qp = <<q_prior_lp, q_transition_lps>>
LogProbRatioOfParts(pc, qc, pp, qp) ==
  LET reduced(transition_lp_ratios) ==
        ApplySumFn(RatioSumFnSelected(pc, qc), transition_lp_ratios)
  IN  IF IsRaised(pp[1]) THEN OfTensor(pp[1])
      ELSE IF IsRaised(pp[2]) THEN OfTensor(pp[2])
      ELSE IF IsRaised(qp[1]) THEN OfTensor(qp[1])
      ELSE IF IsRaised(qp[2]) THEN OfTensor(qp[2])
      ELSE IF BroadcastShape(pp[1].shape, qp[1].shape) = <<-1>>
              \/ BroadcastShape(pp[2].shape, qp[2].shape) = <<-1>>
              \/ Rank(pp[2]) = 0 \/ Rank(qp[2]) = 0
           THEN Error("BroadcastError")
      ELSE OfTensor(AddB(Sub(pp[1], qp[1]), reduced(Sub(pp[2], qp[2]))))

\* log_prob_ratio taking the parts of q at x instead of y
LogProbRatioWrongArgument(pc, x, qc, y) ==
  LogProbRatioOfParts(pc, qc, _log_prob_parts(pc, x), _log_prob_parts(qc, x))

\* _markov_chain_log_prob_ratio(p, x, q, y)
_markov_chain_log_prob_ratio(pc, x, qc, y) ==
  LogProbRatioOfParts(pc, qc, _log_prob_parts(pc, x), _log_prob_parts(qc, y))

\* -------------------------------------------------------- shape inference
\* initial_state_prior.event_shape, .event_shape_tensor(), .batch_shape and
\* .batch_shape_tensor(): chain.event_mode[l] says what is known statically
\* of leaf l's event shape
PriorEventShape(chain) ==
  [l \in Leaves(chain) |-> StaticShape(chain.event[l], chain.event_mode[l])]

PriorEventShapeTensor(chain) == chain.event

PriorBatchShape(chain) == StaticShape(chain.batch, "static")

PriorBatchShapeTensor(chain) == chain.batch

\* tf.get_static_value(self.num_steps): None for a deferred value
StaticNumSteps(chain) == IF chain.is_ref THEN None ELSE chain.num_steps

\* _event_shape with num_steps put after the event shape
EventShapeAppended(chain) ==
  [l \in Leaves(chain) |->
     IF ~PriorEventShape(chain)[l].known THEN UnknownShape
     ELSE [known |-> TRUE,
           dims  |-> PriorEventShape(chain)[l].dims \o <<StaticNumSteps(chain)>>]]

\* MarkovChain._event_shape
_event_shape(chain) ==
  [l \in Leaves(chain) |->
     IF ~PriorEventShape(chain)[l].known THEN UnknownShape
     ELSE [known |-> TRUE,
           dims  |-> <<StaticNumSteps(chain)>> \o PriorEventShape(chain)[l].dims]]

\* MarkovChain._event_shape_tensor
_event_shape_tensor(chain) ==
  [l \in Leaves(chain) |-> <<chain.num_steps>> \o PriorEventShapeTensor(chain)[l]]

\* MarkovChain._batch_shape
_batch_shape(chain) == PriorBatchShape(chain)

\* MarkovChain._batch_shape_tensor
_batch_shape_tensor(chain) == PriorBatchShapeTensor(chain)

\* ------------------------------------------------------------- sampling
\* getattr(dist, sample_attr)(...): a result is [x] for 'sample' and
\* [x, lp] for 'experimental_sample_and_log_prob'; drawn_with keeps the
\* seed the draw consumed
PriorResult(chain, compute_log_prob, sample_shape, seed) ==
  LET x == PriorSample(chain, sample_shape, seed)
  IN  IF compute_log_prob
      THEN [x |-> x, lp |-> PriorLogProb(chain, x), drawn_with |-> seed]
      ELSE [x |-> x, drawn_with |-> seed]

TransResult(d, compute_log_prob, seed) ==
  LET x == TransSample(d, seed)
  IN  IF compute_log_prob
      THEN [x |-> x, lp |-> TransLogProb(d, x), drawn_with |-> seed]
      ELSE [x |-> x, drawn_with |-> seed]

\* the loop body with the step passed on as it comes from tf.range(1, n)
LoopBodyStepNotShifted(chain, compute_log_prob, seed_and_state, step) ==
  LET seeds == split_seed(seed_and_state[1], 2, NoSalt)
  IN  <<seeds[2],
        TransResult(transition_fn(chain, Tensor(<<>>, <<step>>),
                                  seed_and_state[2].x),
                    compute_log_prob, seeds[1])>>

\* the loop body drawing with the seed it was handed, which it also splits
LoopBodySeedReused(chain, compute_log_prob, seed_and_state, step) ==
  LET seeds == split_seed(seed_and_state[1], 2, NoSalt)
  IN  <<seeds[2],
        TransResult(transition_fn(chain, Tensor(<<>>, <<step - 1>>),
                                  seed_and_state[2].x),
                    compute_log_prob, seed_and_state[1])>>

\* _make_sample_loop_body.loop_body: <<seed, new_result>>
loop_body(chain, compute_log_prob, seed_and_state, step) ==
  LET seed              == seed_and_state[1]
      previous_result   == seed_and_state[2]
      state             == previous_result.x
      seeds             == split_seed(seed, 2, NoSalt)
      current_step_seed == seeds[1]
      new_result        == TransResult(
                             transition_fn(chain, Tensor(<<>>, <<step - 1>>), state),
                             compute_log_prob, current_step_seed)
  IN  <<seeds[2], new_result>>

\* what tf.scan returns for the list rs of step results: each part stacked
\* along a new leading axis (of extent 0 when the loop made no step)
Stack(first, rs) ==
  Tensor(<<Len(rs)>> \o first.shape,
         [k \in 1..(Len(rs) * Len(first.data)) |->
            rs[((k - 1) \div Len(first.data)) + 1].data[((k - 1) % Len(first.data)) + 1]])

\* the end of _sample_and_log_prob_helper (lines 326-337): <<samples, lp>>
\* from the prior's result and the scanned step results
Assemble(chain, compute_log_prob, prior_result, rs) ==
  LET results_x == [l \in Leaves(chain) |->
                      Concat0(NewAxis(prior_result.x[l]),
                              Stack(prior_result.x[l],
                                    [i \in 1..Len(rs) |-> rs[i].x[l]]))]
      lp        == IF compute_log_prob
                   THEN _sum_fn(chain,
                                Concat0(NewAxis(prior_result.lp),
                                        Stack(prior_result.lp,
                                              [i \in 1..Len(rs) |-> rs[i].lp])))
                   ELSE Tensor(<<>>, <<0>>)
      samples   == [l \in Leaves(chain) |->
                      move_dimension(results_x[l], 0, _step_axes(chain)[l])]
  IN  <<samples, lp>>

\* the elements tf.scan runs over, taken from the last step down to the first
ScanElemsReversed(chain) ==
  [i \in 1..Max(chain.num_steps - 1, 0) |-> chain.num_steps - i]

\* the elements tf.scan runs over: tf.range(0, num_steps), one too many
ScanElemsFromZero(chain) == Range(0, chain.num_steps)

\* the elements tf.scan runs over: tf.range(1, self.num_steps)
ScanElems(chain) == Range(1, chain.num_steps)

\* ------------------------------------------------------------------ state
\* p, q   the chains constructed (q is the second chain of log_prob_ratio)
\* call   the sampling call in progress
\* out    the outcome of the last completed operation
\* memo   the first sample call made and the trajectory it returned
VARIABLES p, q, call, out, memo

vars == <<p, q, call, out, memo>>

Seeds == 0..(NumSeeds - 1)

Idle == [pc |-> "idle"]

NoOut == [op |-> "none"]

NoMemo == [op |-> "none"]

EventStructures == { << <<>> >>, << <<>>, <<2>> >> }

BatchShapes == { <<>>, <<2>> }

SampleShapes == { <<>>, <<2>> }

Chain(event, batch, loc, kind, drift, num_steps, is_ref, use_kahan, validate_args) ==
  [event |-> event, batch |-> batch, loc |-> loc, kind |-> kind, drift |-> drift,
   num_steps |-> num_steps, is_ref |-> is_ref, use_kahan |-> use_kahan,
   validate_args |-> validate_args,
   event_mode |-> [l \in 1..Len(event) |-> "static"]]

\* no chain has been constructed
NoChain == [constructed |-> FALSE]

IsChain(c) == c # NoChain

\* an input trajectory: leaf l has shape
\* sample_shape ++ batch ++ [extents[l]] ++ event[l]
InputElem(id, l, k) == (id + l + k * (id + 1) + (k \div 3)) % NumVals

InputTraj(chain, sample_shape, extents, id) ==
  [l \in Leaves(chain) |->
     LET shape == sample_shape \o chain.batch \o <<extents[l]>> \o chain.event[l]
     IN  Tensor(shape, [k \in 1..Prod(shape) |-> InputElem(id, l, k)])]

\* ------------------------------------------------ density evaluation spec
\* Chains whose transition rule keeps the prior's shapes, validating their
\* arguments, and trajectories of num_steps steps.
InitDensity ==
  /\ \E event \in EventStructures, batch \in BatchShapes,
        kind \in {"walk", "const"}, n \in 1..MaxSteps,
        use_kahan \in BOOLEAN,
        qkind \in {"walk", "const"}, quse_kahan \in BOOLEAN :
       /\ p = Chain(event, batch, 0, kind, 1, n, FALSE, use_kahan, TRUE)
       /\ q = Chain(event, batch, 1, qkind, 0, n, FALSE, quse_kahan, TRUE)
  /\ call = Idle
  /\ out = NoOut
  /\ memo = NoMemo

\* p.log_prob(x), for x of num_steps steps (of one step when num_steps < 1)
LogProb ==
  \E sample_shape \in SampleShapes, id \in 0..(NumInputs - 1) :
    LET n == IF IsChain(p) THEN Max(p.num_steps, 1) ELSE 1
        x == IF IsChain(p)
             THEN InputTraj(p, sample_shape, [l \in Leaves(p) |-> n], id)
             ELSE <<>>
    IN  /\ IsChain(p)
        /\ call = Idle
        /\ out = NoOut
        /\ out' = [op |-> "log_prob", x |-> x, sample_shape |-> sample_shape,
                   extents |-> [l \in Leaves(p) |-> n], mode |-> "static",
                   sum_fn |-> SumFnSelected(p),
                   res |-> log_prob(p, x, "static")]
        /\ UNCHANGED <<p, q, call, memo>>

\* log_prob_ratio(p, x, q, y)
LogProbRatio ==
  \E sample_shape \in SampleShapes,
     idx \in 0..(NumInputs - 1), idy \in 0..(NumInputs - 1) :
    LET n == p.num_steps
        x == InputTraj(p, sample_shape, [l \in Leaves(p) |-> n], idx)
        y == InputTraj(q, sample_shape, [l \in Leaves(q) |-> n], idy)
    IN  /\ call = Idle
        /\ out = NoOut
        /\ out' = [op |-> "log_prob_ratio", x |-> x, y |-> y,
                   sample_shape |-> sample_shape,
                   sum_fn |-> RatioSumFnSelected(p, q),
                   res |-> _markov_chain_log_prob_ratio(p, x, q, y)]
        /\ UNCHANGED <<p, q, call, memo>>

\* the caller drops the outcome of the last operation
Discard ==
  /\ out # NoOut
  /\ call = Idle
  /\ out' = NoOut
  /\ UNCHANGED <<p, q, call, memo>>

NextDensity == LogProb \/ LogProbRatio \/ Discard

SpecDensity == InitDensity /\ [][NextDensity]_vars

\* --------------------------------------------------- shape checking spec
\* Chains with any of the transition rule kinds, and trajectories whose
\* leaves have any step extents, with any static knowledge of the shapes.
InitShape ==
  /\ \E event \in EventStructures, batch \in BatchShapes,
        kind \in TransitionKinds, n \in 1..MaxSteps, validate_args \in BOOLEAN :
       /\ p = Chain(event, batch, 0, kind, 1, n, FALSE, FALSE, validate_args)
       /\ q = p
  /\ call = Idle
  /\ out = NoOut
  /\ memo = NoMemo

\* p.log_prob(x), for x of any step extents
LogProbAnyShape ==
  \E sample_shape \in SampleShapes,
     extents \in [Leaves(p) -> 0..(MaxSteps + 1)], mode \in ShapeModes :
    LET x == InputTraj(p, sample_shape, extents, 1)
    IN  /\ out = NoOut
        /\ out' = [op |-> "log_prob", x |-> x, sample_shape |-> sample_shape,
                   extents |-> extents, mode |-> mode,
                   res |-> log_prob(p, x, mode)]
        /\ UNCHANGED <<p, q, call, memo>>

NextShape == LogProbAnyShape \/ Discard

SpecShape == InitShape /\ [][NextShape]_vars

\* the helper's seeds taken from a generator that advances with every call
\* made so far, whatever the caller's seed
HelperSeedsStateful(seed) ==
  split_seed(<<seed + (IF memo = NoMemo THEN 0 ELSE 1)>>, 2,
             MarkovChainSampleSalt)

\* the seeds _sample_and_log_prob_helper starts from: <<prior_seed, loop_seed>>
HelperSeeds(seed) == split_seed(<<seed>>, 2, MarkovChainSampleSalt)

\* ----------------------------------------------------------- sampling spec
\* Chains whose transition rule keeps the prior's shapes; sample and
\* sample_and_log_prob run step by step.
Init ==
  /\ \E event \in EventStructures, batch \in BatchShapes, n \in 1..MaxSteps,
        use_kahan \in BOOLEAN :
       /\ p = Chain(event, batch, 0, "walk", 1, n, FALSE, use_kahan, TRUE)
       /\ q = p
  /\ call = Idle
  /\ out = NoOut
  /\ memo = NoMemo

\* the start of _sample_and_log_prob_helper (lines 303-316): the caller's
\* seed is split and the prior is drawn from
SampleBegin ==
  \E op \in {"sample", "sample_and_log_prob"}, sample_shape \in SampleShapes,
     seed \in Seeds :
    LET seeds            == HelperSeeds(seed)
        compute_log_prob == (op = "sample_and_log_prob")
        prior_result     == PriorResult(p, compute_log_prob, sample_shape, seeds[1])
    IN  /\ IsChain(p)
        /\ call = Idle
        /\ out = NoOut
        /\ IF SomeFails(_parameter_control_dependencies(p, FALSE))
           THEN /\ out' = [op |-> op, res |-> Error("InvalidStepCount")]
                /\ call' = Idle
           ELSE /\ call' = [pc |-> "loop", op |-> op,
                            compute_log_prob |-> compute_log_prob,
                            sample_shape |-> sample_shape, seed |-> seed,
                            prior_seed |-> seeds[1], prior_result |-> prior_result,
                            elems |-> ScanElems(p), i |-> 1,
                            carry |-> <<seeds[2], prior_result>>,
                            rs |-> <<>>, invocations |-> <<>>]
                /\ out' = out
        /\ UNCHANGED <<p, q, memo>>

\* one iteration of tf.scan: loop_body on the carried pair and the next step
ScanStep ==
  /\ call.pc = "loop"
  /\ call.i <= Len(call.elems)
  /\ LET step == call.elems[call.i]
         r    == loop_body(p, call.compute_log_prob, call.carry, step)
     IN  call' = [call EXCEPT
                    !.carry = r,
                    !.i = call.i + 1,
                    !.rs = Append(call.rs, r[2]),
                    !.invocations =
                      Append(call.invocations,
                             [step |-> step - 1, state |-> call.carry[2].x,
                              split |-> call.carry[1],
                              seed |-> r[2].drawn_with,
                              carried |-> r[1]])]
  /\ UNCHANGED <<p, q, out, memo>>

\* the end of _sample_and_log_prob_helper: the results are assembled and
\* returned
SampleEnd ==
  /\ call.pc = "loop"
  /\ call.i > Len(call.elems)
  /\ LET r == Assemble(p, call.compute_log_prob, call.prior_result, call.rs)
     IN  /\ out' = [op |-> call.op, seed |-> call.seed,
                    sample_shape |-> call.sample_shape,
                    res |-> Ok(r[1]), samples |-> r[1], lp |-> r[2],
                    prior_seed |-> call.prior_seed,
                    prior_result |-> call.prior_result,
                    iterations |-> Len(call.rs),
                    invocations |-> call.invocations,
                    last_seed |-> call.carry[1],
                    sum_fn |-> IF call.compute_log_prob
                               THEN SumFnSelected(p) ELSE "none",
                    earlier |-> memo]
         /\ memo' = IF memo = NoMemo
                     THEN [op |-> call.op, seed |-> call.seed,
                           sample_shape |-> call.sample_shape,
                           samples |-> r[1]]
                     ELSE memo
  /\ call' = Idle
  /\ UNCHANGED <<p, q>>

Next == SampleBegin \/ ScanStep \/ SampleEnd \/ Discard

Spec == Init /\ [][Next]_vars

\* ---------------------------------------------------------- summation spec
\* Two chains of one structure and scalar batch shape, each with its own
\* summation flag; densities, ratios and samples are taken.
InitSum ==
  /\ \E event \in EventStructures, n \in 1..MaxSteps,
        use_kahan \in BOOLEAN, quse_kahan \in BOOLEAN :
       /\ p = Chain(event, <<>>, 0, "walk", 1, n, FALSE, use_kahan, TRUE)
       /\ q = Chain(event, <<>>, 1, "walk", 0, n, FALSE, quse_kahan, TRUE)
  /\ call = Idle
  /\ out = NoOut
  /\ memo = NoMemo

NextSum ==
  LogProb \/ LogProbRatio \/ SampleBegin \/ ScanStep \/ SampleEnd \/ Discard

SpecSum == InitSum /\ [][NextSum]_vars

\* ---------------------------------------------------------- lifecycle spec
\* A chain is constructed, its deferred num_steps is assigned to, and
\* operations execute on it.
InitLife ==
  /\ p = NoChain
  /\ q = NoChain
  /\ call = Idle
  /\ out = NoOut
  /\ memo = NoMemo

\* MarkovChain.__init__: the parameters are stored and the assertions of
\* _parameter_control_dependencies(is_init=True) run
Construct ==
  \E event \in EventStructures, batch \in BatchShapes, n \in 0..MaxSteps,
     is_ref \in BOOLEAN, validate_args \in BOOLEAN :
    \E event_mode \in [1..Len(event) -> ShapeModes] :
      LET c == [Chain(event, batch, 0, "walk", 1, n, is_ref, FALSE, validate_args)
                  EXCEPT !.event_mode = event_mode]
      IN  /\ p = NoChain
          /\ out = NoOut
          /\ IF SomeFails(_parameter_control_dependencies(c, TRUE))
             THEN /\ out' = [op |-> "construct", args |-> c,
                             res |-> Error("InvalidStepCount")]
                  /\ p' = p
             ELSE /\ out' = [op |-> "construct", args |-> c, res |-> Ok(<<>>)]
                  /\ p' = c
          /\ UNCHANGED <<q, call, memo>>

\* the variable behind a deferred num_steps is assigned a new value
AssignNumSteps ==
  \E n \in 0..MaxSteps :
    /\ IsChain(p)
    /\ p.is_ref
    /\ out = NoOut
    /\ p' = [p EXCEPT !.num_steps = n]
    /\ UNCHANGED <<q, call, out, memo>>

\* event_shape, event_shape_tensor(), batch_shape, batch_shape_tensor()
ShapeQuery ==
  /\ IsChain(p)
  /\ out = NoOut
  /\ out' = [op |-> "shapes",
             event_shape |-> _event_shape(p),
             event_shape_tensor |-> _event_shape_tensor(p),
             batch_shape |-> _batch_shape(p),
             batch_shape_tensor |-> _batch_shape_tensor(p)]
  /\ UNCHANGED <<p, q, call, memo>>

NextLife == Construct \/ AssignNumSteps \/ LogProb \/ ShapeQuery \/ Discard

SpecLife == InitLife /\ [][NextLife]_vars

\* ------------------------------------------------------------ claims
\* The log-density of the trajectory x under chain, at the position lead of
\* the sample and batch axes, written out term by term over n steps: the
\* prior's density of the state at position 0 plus, for t = 1 .. n-1, the
\* density of the state at position t under transition(t-1, state at t-1).
StateElem(chain, x, l, lead, t, e) ==
  At(x[l], lead \o <<t>> \o Unflatten(chain.event[l], e))

TermByTerm(chain, x, n, lead) ==
  SumSeq([l \in Leaves(chain) |->
    SumSeq([e1 \in 1..Prod(chain.event[l]) |->
      PriorElemLP(chain, StateElem(chain, x, l, lead, 0, e1 - 1))
      + SumSeq([t \in 1..(n - 1) |->
          TransElemLP(chain, t - 1, StateElem(chain, x, l, lead, t - 1, e1 - 1),
                      StateElem(chain, x, l, lead, t, e1 - 1))])])])

\* C1: log_prob of a trajectory of extent num_steps = n >= 1 is the prior's
\* log-density of x_0 plus the sum over t = 1..n-1 of the log-density of
\* x_t under transition(t-1, x_{t-1}), at every sample and batch position.
C1_Additivity ==
  (out.op = "log_prob" /\ out.extents[1] = p.num_steps)
    => /\ out.res.status = "ok"
       /\ out.res.value.shape = out.sample_shape \o p.batch
       /\ \A j \in 1..Prod(out.sample_shape \o p.batch) :
            out.res.value.data[j] =
              TermByTerm(p, out.x, p.num_steps,
                         Unflatten(out.sample_shape \o p.batch, j - 1))

\* C1 witness: a density was returned for a batched, two-leaf trajectory of
\* three steps
C1_Witness ==
  /\ out.op = "log_prob"
  /\ out.extents[1] = p.num_steps
  /\ p.num_steps = 3
  /\ Len(p.event) = 2
  /\ p.batch = <<2>>
  /\ out.sample_shape = <<2>>
  /\ p.kind = "walk"
  /\ p.drift = 1
  /\ out.res.status = "ok"

\* C5: whenever log_prob(p, x) and log_prob(q, y) are both defined, for
\* chains of one structure and trajectories of one step extent,
\* log_prob_ratio(p, x, q, y) is their difference.
C5_RatioIsDifference ==
  out.op = "log_prob_ratio"
    => LET lp == log_prob(p, out.x, "static")
           lq == log_prob(q, out.y, "static")
       IN  (lp.status = "ok" /\ lq.status = "ok")
             => /\ out.res.status = "ok"
                /\ out.res.value = Sub(lp.value, lq.value)

\* C5 witness: a ratio of two different chains at two different
\* trajectories of three steps, whose value is not zero
C5_Witness ==
  /\ out.op = "log_prob_ratio"
  /\ out.x # out.y
  /\ p.num_steps = 3
  /\ out.sample_shape = <<2>>
  /\ Len(p.event) = 2
  /\ p.use_kahan # q.use_kahan
  /\ log_prob(p, out.x, "static").status = "ok"
  /\ out.res.status = "ok"
  /\ \E j \in 1..Len(out.res.value.data) : out.res.value.data[j] # 0

\* every leaf of the trajectory has the chain's num_steps along its step axis
ExtentsMatch == \A l \in Leaves(p) : out.extents[l] = p.num_steps

\* the batch shape of transition_fn(0, initial_state_prior.sample())
TransitionBatchShape(chain) ==
  IF chain.kind = "walk" THEN chain.batch
  ELSE IF chain.kind = "const" THEN <<>>
  ELSE IF chain.kind = "gain" THEN chain.batch \o <<2>>
  ELSE SubSeq(chain.batch, 1, Len(chain.batch) - 1)

\* C7 as stated: under validation, log_prob never returns a result when the
\* transition's batch shape differs from the prior's.
C7_AsStated ==
  (out.op = "log_prob" /\ p.validate_args /\ ExtentsMatch
     /\ TransitionBatchShape(p) # p.batch)
    => out.res.status # "ok"

\* C7: under validation, log_prob fails with a shape error and returns no
\* result when the transition's batch shape has an axis more or an axis less
\* than the prior's, so that its log-density, reduced over the steps, has a
\* shape other than the prior's log-density; this holds whatever is known
\* statically of the shapes.
C7_ShapeMismatchFails ==
  (out.op = "log_prob" /\ p.validate_args /\ ExtentsMatch
     /\ p.kind \in {"gain", "lose"})
    => out.res.status = "ShapeError"

\* C7 witness: the shapes are not known statically and the runtime assertion
\* rejects a transition that gained a batch axis
C7_Witness ==
  /\ out.op = "log_prob"
  /\ p.validate_args
  /\ ExtentsMatch
  /\ p.kind = "gain"
  /\ out.mode = "unknown"
  /\ p.batch = <<2>>
  /\ out.res.status = "ShapeError"

\* C9 as stated: with validation disabled log_prob raises no error.
C9_AsStated ==
  (out.op = "log_prob" /\ ~p.validate_args /\ p.kind = "walk")
    => out.res.status = "ok"

\* C9: with validation enabled log_prob fails with StepAxisLengthMismatch
\* exactly when some leaf's step extent differs from num_steps; with
\* validation disabled no such assertion is made and no such error raised,
\* and when the leaves share a step extent m >= 1 the density is computed
\* over m steps.
C9_StepAxisCheck ==
  out.op = "log_prob"
    => /\ p.validate_args
            => (out.res.status = "StepAxisLengthMismatch" <=> ~ExtentsMatch)
       /\ ~p.validate_args
            => /\ out.res.status # "StepAxisLengthMismatch"
               /\ _sample_control_dependencies(p, out.x) = <<>>
       /\ (/\ ~p.validate_args
           /\ p.kind \in {"walk", "const"}
           /\ out.extents[1] >= 1
           /\ \A l \in Leaves(p) : out.extents[l] = out.extents[1])
            => /\ out.res.status = "ok"
               /\ out.res.value.shape = out.sample_shape \o p.batch
               /\ \A j \in 1..Prod(out.sample_shape \o p.batch) :
                    out.res.value.data[j] =
                      TermByTerm(p, out.x, out.extents[1],
                                 Unflatten(out.sample_shape \o p.batch, j - 1))

\* C9 witness: the first leaf has num_steps steps, the second has not, and
\* the call failed
C9_Witness ==
  /\ out.op = "log_prob"
  /\ p.validate_args
  /\ Len(p.event) = 2
  /\ out.extents[1] = p.num_steps
  /\ out.extents[2] # p.num_steps
  /\ out.res.status = "StepAxisLengthMismatch"

IsSampleOp == out.op \in {"sample", "sample_and_log_prob"}

\* C2: the log-density sample_and_log_prob returns is log_prob of the
\* trajectory it returns.
C2_SampleLogProbConsistent ==
  out.op = "sample_and_log_prob"
    => LET lp == log_prob(p, out.samples, "static")
       IN  /\ lp.status = "ok"
           /\ out.lp = lp.value

\* C2 witness: a joint draw of three steps, batched, of two leaves
C2_Witness ==
  /\ out.op = "sample_and_log_prob"
  /\ p.num_steps = 3
  /\ out.iterations = 2
  /\ Len(p.event) = 2
  /\ p.batch = <<2>>
  /\ out.sample_shape = <<2>>
  /\ out.lp.shape = <<2, 2>>

\* C3: every leaf of a sampled trajectory has shape
\* sample_shape ++ batch_shape ++ [num_steps] ++ the leaf's event shape, and
\* its log_prob has shape sample_shape ++ batch_shape.
C3_SampleShape ==
  IsSampleOp
    => /\ \A l \in Leaves(p) :
            /\ out.samples[l].shape =
                 out.sample_shape \o p.batch \o <<p.num_steps>> \o p.event[l]
            /\ out.samples[l].shape[Rank(out.samples[l]) + 1 - (1 + Len(p.event[l]))]
                 = p.num_steps
       /\ log_prob(p, out.samples, "static").status = "ok"
       /\ log_prob(p, out.samples, "static").value.shape
            = out.sample_shape \o p.batch

\* C3 witness: sample shape [2], batch shape [2], three steps, a leaf with
\* event shape [2]
C3_Witness ==
  /\ out.op = "sample"
  /\ out.sample_shape = <<2>>
  /\ p.batch = <<2>>
  /\ p.num_steps = 3
  /\ Len(p.event) = 2
  /\ out.samples[2].shape = <<2, 2, 3, 2>>
  /\ out.samples[1].shape = <<2, 2, 3>>

WithStepAxis(chain, x0) ==
  [l \in Leaves(chain) |->
     Tensor(SubSeq(x0[l].shape, 1, Len(x0[l].shape) - Len(chain.event[l]))
              \o <<1>> \o chain.event[l],
            x0[l].data)]

\* C6 as stated: with num_steps = 1, sample(shape, seed) is the prior's
\* sample for that shape and that seed.
C6_AsStated ==
  (IsSampleOp /\ p.num_steps = 1)
    => out.samples = WithStepAxis(p, PriorSample(p, out.sample_shape, <<out.seed>>))

\* C6: with num_steps = 1 the loop makes no iteration, sample(shape, seed)
\* is the prior's sample for that shape under the prior seed split off the
\* caller's seed, with a step axis of extent 1, and its log_prob is the
\* prior's log_prob of that draw, the transition part being zero.
C6_OneStepIsPrior ==
  (IsSampleOp /\ p.num_steps = 1)
    => LET x0 == PriorSample(p, out.sample_shape, HelperSeeds(out.seed)[1])
           lp == log_prob(p, out.samples, "static")
       IN  /\ out.iterations = 0
           /\ out.samples = WithStepAxis(p, x0)
           /\ lp.status = "ok"
           /\ lp.value = PriorLogProb(p, x0)
           /\ \A j \in 1..Len(lp.value.data) :
                _sum_fn(p, _log_prob_parts(p, out.samples)[2]).data[j] = 0
           /\ out.op = "sample_and_log_prob" => out.lp = PriorLogProb(p, x0)

\* C6 witness: a one-step chain of two leaves was sampled
C6_Witness ==
  /\ out.op = "sample"
  /\ p.num_steps = 1
  /\ Len(p.event) = 2
  /\ p.batch = <<2>>
  /\ out.sample_shape = <<2>>
  /\ out.iterations = 0

\* C8: under validation num_steps < 1 is rejected with InvalidStepCount by
\* the constructor when num_steps is known at construction, and by the
\* executing operation, not the constructor, when it is deferred; a chain
\* makes the check in exactly one of the two places, and in neither without
\* validation.
C8_StepCountCheck ==
  /\ out.op = "construct"
       => (out.res.status = "InvalidStepCount"
             <=> (out.args.validate_args /\ ~out.args.is_ref
                    /\ out.args.num_steps < 1))
  /\ out.op = "log_prob"
       => (out.res.status = "InvalidStepCount"
             <=> (p.validate_args /\ p.is_ref /\ p.num_steps < 1))
  /\ IsChain(p)
       => /\ Len(_parameter_control_dependencies(p, TRUE))
               + Len(_parameter_control_dependencies(p, FALSE))
               = (IF p.validate_args THEN 1 ELSE 0)
          /\ (p.validate_args /\ ~p.is_ref) => p.num_steps >= 1

\* C8 witness: a chain built with a deferred num_steps < 1 under validation
\* was accepted by the constructor and rejected by log_prob
C8_Witness ==
  /\ IsChain(p)
  /\ p.is_ref
  /\ p.validate_args
  /\ p.num_steps < 1
  /\ out.op = "log_prob"
  /\ out.res.status = "InvalidStepCount"

\* C10: for every leaf the static event_shape is the static value of
\* num_steps (unknown while num_steps is deferred) put before the prior's
\* static event shape of the leaf, and of unknown rank when that has unknown
\* rank; the dynamic event shape is num_steps put before the prior's; the
\* batch shape is the prior's, in both forms.
C10_EventAndBatchShape ==
  out.op = "shapes"
    => /\ \A l \in Leaves(p) :
            LET prior == StaticShape(p.event[l], p.event_mode[l])
                es    == out.event_shape[l]
            IN  /\ ~prior.known => ~es.known
                /\ prior.known =>
                     /\ es.known
                     /\ Len(es.dims) = 1 + Len(prior.dims)
                     /\ es.dims[1] = (IF p.is_ref THEN None ELSE p.num_steps)
                     /\ Tail(es.dims) = prior.dims
                /\ Len(out.event_shape_tensor[l]) = 1 + Len(p.event[l])
                /\ out.event_shape_tensor[l][1] = p.num_steps
                /\ Tail(out.event_shape_tensor[l]) = p.event[l]
       /\ out.batch_shape = [known |-> TRUE, dims |-> p.batch]
       /\ out.batch_shape_tensor = p.batch

\* C10 witness: a chain of three steps with a leaf of event shape [2] and a
\* leaf of unknown event rank
C10_Witness ==
  /\ out.op = "shapes"
  /\ ~p.is_ref
  /\ p.num_steps = 3
  /\ Len(p.event) = 2
  /\ p.event_mode[1] = "unknown"
  /\ p.event_mode[2] = "static"
  /\ out.event_shape[2].dims = <<3, 2>>
  /\ ~out.event_shape[1].known
  /\ p.batch = <<2>>

\* the loop seed carried into step t >= 1 of a sample call, and the seed of
\* the draw of step t, as derived from the caller's seed
RECURSIVE LoopSeed(_, _)
LoopSeed(seed, t) ==
  IF t = 1 THEN HelperSeeds(seed)[2]
  ELSE split_seed(LoopSeed(seed, t - 1), 2, NoSalt)[2]

StepSeed(seed, t) == split_seed(LoopSeed(seed, t), 2, NoSalt)[1]

\* the state realized at step t of the recurrence that starts from x0:
\* x_t is drawn from transition(t-1, x_{t-1})
RECURSIVE Realized(_, _, _, _)
Realized(chain, x0, seed, t) ==
  IF t = 0 THEN x0
  ELSE TransSample(transition_fn(chain, Tensor(<<>>, <<t - 1>>),
                                 Realized(chain, x0, seed, t - 1)),
                   StepSeed(seed, t))

\* the invocations made so far are those of steps 1, 2, ... in this order:
\* the one of step t received step index t-1 and the state realized at t-1
InOrder(chain, x0, seed, invocations) ==
  \A t \in 1..Len(invocations) :
    /\ invocations[t].step = t - 1
    /\ invocations[t].state = Realized(chain, x0, seed, t - 1)

\* C11: at every moment of a sample call the steps made are steps 1..i-1,
\* made in increasing order, each invoked with step index t-1 and the state
\* realized at step t-1 (x_0 the prior's draw), and the state carried on is
\* the last one realized; the call ends after exactly num_steps-1
\* invocations and position t of what it returns is the state drawn at
\* step t.
C11_SequentialRecurrence ==
  /\ call.pc = "loop"
       => /\ call.elems = [t \in 1..(p.num_steps - 1) |-> t]
          /\ call.i \in 1..p.num_steps
          /\ Len(call.rs) = call.i - 1
          /\ Len(call.invocations) = call.i - 1
          /\ call.prior_result.x
               = PriorSample(p, call.sample_shape, HelperSeeds(call.seed)[1])
          /\ InOrder(p, call.prior_result.x, call.seed, call.invocations)
          /\ \A t \in 1..Len(call.rs) :
               call.rs[t].x = Realized(p, call.prior_result.x, call.seed, t)
          /\ call.carry[2].x
               = Realized(p, call.prior_result.x, call.seed, call.i - 1)
  /\ IsSampleOp
       => /\ out.iterations = p.num_steps - 1
          /\ Len(out.invocations) = p.num_steps - 1
          /\ InOrder(p, out.prior_result.x, out.seed, out.invocations)
          /\ \A l \in Leaves(p), t \in 0..(p.num_steps - 1) :
               LET x_t == Realized(p, out.prior_result.x, out.seed, t)[l]
               IN  \A j \in 1..Prod(out.sample_shape \o p.batch),
                      e \in 1..Prod(p.event[l]) :
                     LET lead == Unflatten(out.sample_shape \o p.batch, j - 1)
                     IN  StateElem(p, out.samples, l, lead, t, e - 1)
                           = At(x_t, lead \o Unflatten(p.event[l], e - 1))

\* C11 witness: a call of three steps over a batched two-leaf state has
\* returned, its two invocations having received different states
C11_Witness ==
  /\ out.op = "sample"
  /\ p.num_steps = 3
  /\ Len(p.event) = 2
  /\ p.batch = <<2>>
  /\ out.sample_shape = <<2>>
  /\ out.iterations = 2
  /\ Len(out.invocations) = 2
  /\ out.invocations[1].state = out.prior_result.x
  /\ out.invocations[2].state # out.invocations[1].state

\* the name of the compensated reducer when the flag is set, of the plain
\* one otherwise
ReducerFor(flag) == IF flag THEN "reduce_kahan_sum" ELSE "reduce_sum"

\* C12: log_prob_ratio(p, x, q, y) reduces with compensated summation
\* exactly when p or q has the compensated-summation flag set, and with
\* plain summation otherwise; log_prob and sample_and_log_prob of a chain
\* reduce with the reducer selected by that chain's own flag, whatever the
\* other chain's flag is.
C12_ReducerSelection ==
  /\ out.op = "log_prob_ratio"
       => /\ out.sum_fn = ReducerFor(p.use_kahan \/ q.use_kahan)
          /\ (out.sum_fn = "reduce_kahan_sum") <=> (p.use_kahan \/ q.use_kahan)
          /\ (out.sum_fn = "reduce_sum") <=> (~p.use_kahan /\ ~q.use_kahan)
  /\ out.op = "log_prob"
       => out.sum_fn = ReducerFor(p.use_kahan)
  /\ (out.op = "sample_and_log_prob" /\ out.res.status = "ok")
       => out.sum_fn = ReducerFor(p.use_kahan)

\* C12 witness: a ratio of three-step trajectories where only q has the
\* flag set, reduced with compensated summation
C12_Witness ==
  /\ out.op = "log_prob_ratio"
  /\ p.num_steps = 3
  /\ ~p.use_kahan
  /\ q.use_kahan
  /\ out.res.status = "ok"
  /\ out.sum_fn = "reduce_kahan_sum"

\* the seeds a call has split so far: the caller's, then the carried seed
\* handed to each iteration
SeedsSplit(seed, invocations) ==
  << <<seed>> >> \o [t \in 1..Len(invocations) |-> invocations[t].split]

\* the seeds a call has drawn with so far: the prior's draw, then each step's
SeedsDrawnWith(prior_result, invocations) ==
  <<prior_result.drawn_with>>
    \o [t \in 1..Len(invocations) |-> invocations[t].seed]

NoDuplicates(s) == \A i, j \in 1..Len(s) : s[i] = s[j] => i = j

\* the seed discipline of one call, given what it has done so far and the
\* seed it carries (pending): every seed derives as the code's splits say,
\* and no seed is split or drawn with twice
SeedDiscipline(seed, prior_seed, prior_result, invocations, pending) ==
  LET split == SeedsSplit(seed, invocations)
      drawn == SeedsDrawnWith(prior_result, invocations)
      n     == Len(invocations)
  IN  /\ prior_seed = split_seed(<<seed>>, 2, MarkovChainSampleSalt)[1]
      /\ prior_result.drawn_with = prior_seed
      /\ \A t \in 1..n :
           /\ invocations[t].split
                = (IF t = 1
                   THEN split_seed(<<seed>>, 2, MarkovChainSampleSalt)[2]
                   ELSE invocations[t - 1].carried)
           /\ invocations[t].seed
                = split_seed(invocations[t].split, 2, NoSalt)[1]
           /\ invocations[t].carried
                = split_seed(invocations[t].split, 2, NoSalt)[2]
      /\ pending = (IF n = 0
                    THEN split_seed(<<seed>>, 2, MarkovChainSampleSalt)[2]
                    ELSE invocations[n].carried)
      /\ NoDuplicates(split \o drawn \o <<pending>>)

\* C13: within one sample call no seed is consumed twice: the caller's seed
\* is only split into (prior_seed, loop_seed), prior_seed only draws the
\* prior, each carried loop seed is only split into (step seed, next loop
\* seed), the step seed only draws that step and the next loop seed is only
\* carried on; so the seeds of the num_steps draws are pairwise distinct
\* and no carried loop seed draws a sample.
C13_NoSeedReuse ==
  /\ call.pc = "loop"
       => /\ SeedDiscipline(call.seed, call.prior_seed, call.prior_result,
                            call.invocations, call.carry[1])
          /\ \A t \in 1..Len(call.rs) :
               call.rs[t].drawn_with = call.invocations[t].seed
  /\ (IsSampleOp /\ out.res.status = "ok")
       => /\ Len(out.invocations) = p.num_steps - 1
          /\ SeedDiscipline(out.seed, out.prior_seed, out.prior_result,
                            out.invocations, out.last_seed)
          /\ Len(SeedsDrawnWith(out.prior_result, out.invocations))
               = p.num_steps

\* C13 witness: a finished call of three steps, whose three draws and
\* three splits used six different seeds
C13_Witness ==
  /\ IsSampleOp
  /\ out.res.status = "ok"
  /\ p.num_steps = 3
  /\ Len(out.invocations) = 2
  /\ Cardinality({SeedsDrawnWith(out.prior_result, out.invocations)[i] :
                    i \in 1..3}
                  \cup {SeedsSplit(out.seed, out.invocations)[i] :
                          i \in 1..3}) = 6

=============================================================================
